---------------------------- MODULE Spec2Model ----------------------------
(***************************************************************************)
(* Reservation manager (reservation/src/manager.rs) over the relational    *)
(* store that holds rsvp.reservations, together with the abi types it      *)
(* uses (validation, status conversion, row decoding, error translation).  *)
(*                                                                         *)
(* Every manager operation is: a local prologue (validate / parse the id)  *)
(* that may fail before any I/O, then exactly one SQL statement executed   *)
(* atomically by the store, whose outcome is translated and returned by    *)
(* the same call.  Callers are concurrent: a call is "in flight" between   *)
(* its prologue and the execution of its statement.                        *)
(***************************************************************************)
EXTENDS Integers, FiniteSets, Sequences, TLC

(***************************************************************************)
(* Bounds of the model.                                                    *)
(***************************************************************************)
MaxTime == 2
MaxIds == 2
MaxPieces == 3

(***************************************************************************)
(* Input domains.                                                          *)
(***************************************************************************)
Procs == {"p1", "p2"}

Users == {"", "u1", "u2"}
Resources == {"", "r1", "r2", "room 1"}
Notes == {"", "n1"}

\* A protobuf timestamp is a number of ticks of 1/TicksPerSecond second
\* (its seconds and nanos); an instant of the store (DateTime<Utc>) is a
\* number of whole seconds.  NoTime is an absent timestamp (Option::None).
TicksPerSecond == 2
NoTime == -1
Seconds == 0 .. MaxTime
Times == 0 .. (MaxTime * TicksPerSecond)
OptTimes == Times \cup {NoTime}

\* The i32 status field of abi::Reservation: the four enum values, and
\* "Other" for an i32 that names no variant.
StatusInputs == {"Unknown", "Pending", "Confirmed", "Blocked", "Other"}

\* Identifier strings.  A positive number n stands for the n-th well-formed
\* UUID string, EmptyId for "" and MalformedId for a non-empty string that
\* is no UUID.
EmptyId == 0
MalformedId == -1
Uuids == 1 .. MaxIds
IdInputs == Uuids \cup {EmptyId, MalformedId}

Reservations ==
    [id : {EmptyId}, user_id : Users, resource_id : Resources,
     start_time : OptTimes, end_time : OptTimes, note : Notes,
     status : StatusInputs]

NoRsvp ==
    [id |-> EmptyId, user_id |-> "", resource_id |-> "",
     start_time |-> NoTime, end_time |-> NoTime, note |-> "",
     status |-> "Unknown"]

NoWindow == [rid |-> "", start |-> NoTime, end |-> NoTime]
NoInfo == [tag |-> "None", new |-> NoWindow, old |-> NoWindow, raw |-> <<>>]

\* An error with no detail text, and no error.
NoDetail == [some |-> FALSE, text |-> <<>>]
NoErr ==
    [type |-> "none", code |-> "", schema |-> "", table |-> "",
     detail |-> NoDetail]

\* A ReservationQuery as its builder leaves it: page 1, 10 to a page.
DefaultPage == 1
DefaultPageSize == 10
NoQuery ==
    [user_id |-> "", resource_id |-> "", start |-> NoTime, end |-> NoTime,
     status |-> "Unknown", page |-> DefaultPage, pagesize |-> DefaultPageSize,
     desc |-> FALSE]

NoReq ==
    [op |-> "none", rsvp |-> NoRsvp, id |-> EmptyId, note |-> "", err |-> NoErr,
     query |-> NoQuery]
NoRes == [rsvps |-> <<>>, kind |-> "none", rsvp |-> NoRsvp, badid |-> EmptyId, info |-> NoInfo]

VARIABLES
    store,    \* the rows of rsvp.reservations
    nextId,   \* the next identifier the store assigns
    pc,       \* per caller: "idle", "store" (statement in flight), "done"
    req,      \* per caller: the call being made (or last made)
    res,      \* per caller: the result returned by its last completed call
    conc      \* pairs of callers whose current calls were in flight together

vars == <<store, nextId, pc, req, res, conc>>


(***************************************************************************)
(* abi: validation and conversions.                                        *)
(***************************************************************************)

\* utils::to_datetime: the UTC instant of a timestamp's whole seconds (its
\* nanos are dropped), or InvalidTime for an absent timestamp.
to_datetime(tm) ==
    IF tm = NoTime THEN [ok |-> FALSE, t |-> NoTime]
    ELSE [ok |-> TRUE, t |-> tm \div TicksPerSecond]

\* A conversion that takes the number of seconds for a number of ticks.
to_timestamp_NoScale(d) == d

\* utils::to_timestamp: the timestamp of an instant, built from its
\* calendar fields down to the second.
to_timestamp(d) == d * TicksPerSecond

\* A validate that does not compare start with end.
validate_NoOrder(r) ==
    IF r.user_id = "" THEN "InvalidUserId"
    ELSE IF r.resource_id = "" THEN "InvalidResourceId"
    ELSE IF r.start_time = NoTime \/ r.end_time = NoTime THEN "InvalidTime"
    ELSE "Ok"

\* Reservation::validate: "Ok" or the name of the error it returns.
validate(r) ==
    IF r.user_id = "" THEN "InvalidUserId"
    ELSE IF r.resource_id = "" THEN "InvalidResourceId"
    ELSE IF r.start_time = NoTime \/ r.end_time = NoTime THEN "InvalidTime"
    ELSE IF to_datetime(r.start_time).t >= to_datetime(r.end_time).t
         THEN "InvalidTime"
    ELSE "Ok"

\* Reservation::get_timespan: the half-open range [start, end).
get_timespan(r) ==
    [start |-> to_datetime(r.start_time).t, end |-> to_datetime(r.end_time).t]

\* A conversion that falls back to Blocked.
status_or_pending_Blocked(s) ==
    IF s \in {"Unknown", "Pending", "Confirmed", "Blocked"} THEN s ELSE "Blocked"

\* ReservationStatus::from_i32(status).unwrap_or(Pending) in reserve.
status_or_pending(s) ==
    IF s \in {"Unknown", "Pending", "Confirmed", "Blocked"} THEN s ELSE "Pending"

\* Display for ReservationStatus: the text bound to the status column.
status_to_string(s) ==
    CASE s = "Unknown" -> "unknown"
      [] s = "Pending" -> "pending"
      [] s = "Blocked" -> "blocked"
      [] s = "Confirmed" -> "confirmed"

\* From<RsvpStatus> for ReservationStatus: the column value decoded.
status_from_rsvp(s) ==
    CASE s = "unknown" -> "Unknown"
      [] s = "pending" -> "Pending"
      [] s = "confirmed" -> "Confirmed"
      [] s = "blocked" -> "Blocked"

\* A parse that lets the empty string through.
parse_uuid_ok_Lenient(id) == id >= 0

\* Uuid::parse_str(&id) succeeds.
parse_uuid_ok(id) == id > 0

\* FromRow for Reservation: a row decoded into the domain value.
from_row(row) ==
    [id |-> row.id, user_id |-> row.user_id, resource_id |-> row.resource_id,
     start_time |-> to_timestamp(row.timespan.start),
     end_time |-> to_timestamp(row.timespan.end),
     note |-> row.note, status |-> status_from_rsvp(row.status)]

(***************************************************************************)
(* abi::error: translation of store errors.                                *)
(***************************************************************************)

\* A diagnostic string is a sequence of pieces.  A piece of shape "clause"
\* is a stretch of text (k1, k2)=(v1, [v2 up to the next ")" or "]", where
\* v2 is the sequence of its comma-separated parts with the quotes left
\* out; a piece of shape "text" is any other stretch, kept in v1.  A part is
\* a date text (ok), a wall-clock time with a UTC offset, or some other
\* text.  Words are the strings made of letters, digits, "_" and "-".
Words == {"resource_id", "timespan", "key", "r1", "r2", "ocean-view-room-713"}
IsWord(str) == str \in Words

DateText(wall, off) == [ok |-> TRUE, wall |-> wall, off |-> off]
NotADate == [ok |-> FALSE, wall |-> 0, off |-> 0]
Clause(k1, k2, v1, v2) ==
    [shape |-> "clause", k1 |-> k1, k2 |-> k2, v1 |-> v1, v2 |-> v2]
Text(str) == [shape |-> "text", k1 |-> "", k2 |-> "", v1 |-> str, v2 |-> <<>>]

\* A parse that reads the wall-clock time as UTC, whatever the offset.
parse_date_NoOffset(d) == d.wall

\* parse_date: the UTC instant of a date text in the format
\* "%Y-%m-%d %H:%M:%S%#z".
parse_date(d) == d.wall - d.off

\* The regular expression of ParseInfo::from_str matches the piece.
Captured(c) ==
    /\ c.shape = "clause"
    /\ IsWord(c.k1) /\ IsWord(c.k2) /\ IsWord(c.v1)
    /\ c.v2 # <<>>

\* ParseInfo::from_str: the maps of the matches, when there are two.
parse_info(str) ==
    LET maps == SelectSeq(str, Captured)
    IN  IF Len(maps) # 2 THEN [ok |-> FALSE, new |-> Text(""), old |-> Text("")]
        ELSE [ok |-> TRUE, new |-> maps[1], old |-> maps[2]]

\* TryFrom<HashMap<String, String>> for ReservationWindow, on the map
\* {k1: v1, k2: v2} of a match (k2's entry replaces k1's when k1 = k2):
\* "Ok" with the window, "Err", or "Panic" where the code unwraps None.
window_try_from(c) ==
    IF c.k1 # "timespan" /\ c.k2 # "timespan"
    THEN [tag |-> "Err", w |-> NoWindow]
    ELSE LET parts == IF c.k2 = "timespan" THEN c.v2 ELSE <<NotADate>>
         IN  IF ~parts[1].ok \/ Len(parts) < 2
             THEN [tag |-> "Err", w |-> NoWindow]
             ELSE IF Len(parts) > 2 \/ ~parts[2].ok
             THEN [tag |-> "Err", w |-> NoWindow]
             ELSE IF c.k1 = "resource_id" /\ c.k2 # "resource_id"
             THEN [tag |-> "Ok",
                   w |-> [rid |-> c.v1, start |-> parse_date(parts[1]),
                          end |-> parse_date(parts[2])]]
             ELSE [tag |-> "Panic", w |-> NoWindow]

\* A conversion that takes new from the second match and old from the first.
conflict_from_str_Swapped(str) ==
    LET info == parse_info(str)
        new == window_try_from(info.old)
        old == window_try_from(info.new)
    IN  IF ~info.ok THEN [tag |-> "Err", new |-> NoWindow, old |-> NoWindow]
        ELSE IF new.tag # "Ok" THEN [tag |-> new.tag, new |-> NoWindow, old |-> NoWindow]
        ELSE IF old.tag # "Ok" THEN [tag |-> old.tag, new |-> NoWindow, old |-> NoWindow]
        ELSE [tag |-> "Ok", new |-> new.w, old |-> old.w]

\* FromStr for ReservationConflict: ParseInfo::from_str(s)?.try_into(),
\* new before old.
conflict_from_str(str) ==
    LET info == parse_info(str)
        new == window_try_from(info.new)
        old == window_try_from(info.old)
    IN  IF ~info.ok THEN [tag |-> "Err", new |-> NoWindow, old |-> NoWindow]
        ELSE IF new.tag # "Ok" THEN [tag |-> new.tag, new |-> NoWindow, old |-> NoWindow]
        ELSE IF old.tag # "Ok" THEN [tag |-> old.tag, new |-> NoWindow, old |-> NoWindow]
        ELSE [tag |-> "Ok", new |-> new.w, old |-> old.w]

\* FromStr for ReservationConflictInfo: Parsed(conflict), or Unparsed(s)
\* with the string itself; "Panic" where the parse panics.
parse_conflict(str) ==
    LET c == conflict_from_str(str)
    IN  IF c.tag = "Ok"
        THEN [tag |-> "Parsed", new |-> c.new, old |-> c.old, raw |-> <<>>]
        ELSE IF c.tag = "Err"
        THEN [tag |-> "Unparsed", new |-> NoWindow, old |-> NoWindow, raw |-> str]
        ELSE [tag |-> "Panic", new |-> NoWindow, old |-> NoWindow, raw |-> <<>>]

\* The thread of the call panics.
Panic == [rsvps |-> <<>>, kind |-> "Panic", rsvp |-> NoRsvp, badid |-> EmptyId, info |-> NoInfo]

\* Error::ConflictReservation(err.detail().unwrap().parse().unwrap()).
ConflictReservation(detail) ==
    IF ~detail.some \/ parse_conflict(detail.text).tag = "Panic" THEN Panic
    ELSE [rsvps |-> <<>>, kind |-> "ConflictReservation", rsvp |-> NoRsvp, badid |-> EmptyId,
          info |-> parse_conflict(detail.text)]

\* A translation that tests for the unique-violation code instead.
error_from_WrongCode(e) ==
    IF e.type = "Database"
    THEN IF e.code = "23505" /\ e.schema = "rsvp" /\ e.table = "reservations"
         THEN ConflictReservation(e.detail)
         ELSE [rsvps |-> <<>>, kind |-> "DbError", rsvp |-> NoRsvp, badid |-> EmptyId,
               info |-> NoInfo]
    ELSE IF e.type = "RowNotFound"
    THEN [rsvps |-> <<>>, kind |-> "NotFound", rsvp |-> NoRsvp, badid |-> EmptyId, info |-> NoInfo]
    ELSE [rsvps |-> <<>>, kind |-> "DbError", rsvp |-> NoRsvp, badid |-> EmptyId, info |-> NoInfo]

\* From<sqlx::Error> for Error.
error_from(e) ==
    IF e.type = "Database"
    THEN IF e.code = "23P01" /\ e.schema = "rsvp" /\ e.table = "reservations"
         THEN ConflictReservation(e.detail)
         ELSE [rsvps |-> <<>>, kind |-> "DbError", rsvp |-> NoRsvp, badid |-> EmptyId,
               info |-> NoInfo]
    ELSE IF e.type = "RowNotFound"
    THEN [rsvps |-> <<>>, kind |-> "NotFound", rsvp |-> NoRsvp, badid |-> EmptyId, info |-> NoInfo]
    ELSE [rsvps |-> <<>>, kind |-> "DbError", rsvp |-> NoRsvp, badid |-> EmptyId, info |-> NoInfo]

Ok(r) == [rsvps |-> <<>>, kind |-> "Ok", rsvp |-> r, badid |-> EmptyId, info |-> NoInfo]
Err(k) == [rsvps |-> <<>>, kind |-> k, rsvp |-> NoRsvp, badid |-> EmptyId, info |-> NoInfo]
InvalidReservationId(id) ==
    [rsvps |-> <<>>, kind |-> "InvalidReservationId", rsvp |-> NoRsvp, badid |-> id,
     info |-> NoInfo]

(***************************************************************************)
(* The store: table rsvp.reservations and its exclusion constraint.        *)
(***************************************************************************)

\* An overlap of closed ranges: ranges that touch overlap.
Overlaps_Closed(a, b) == a.start <= b.end /\ b.start <= a.end

\* Range overlap (&&) of two half-open ranges.
Overlaps(a, b) == a.start < b.end /\ b.start < a.end

\* A constraint that excludes equal ranges only (timespan WITH =).
Excluding_EqualOnly(rows, rid, span) ==
    {row \in rows : row.resource_id = rid /\ row.timespan = span}

\* The rows whose key (resource_id, timespan) excludes the given key.
Excluding(rows, rid, span) ==
    {row \in rows : row.resource_id = rid /\ Overlaps(row.timespan, span)}

RowNotFound ==
    [type |-> "RowNotFound", code |-> "", schema |-> "", table |-> "",
     detail |-> NoDetail]

\* The text of a key (resource_id, timespan) in a diagnostic of the store,
\* which writes instants at offset +00.
KeyText(rid, span) ==
    Clause("resource_id", "timespan", rid,
           <<DateText(span.start, 0), DateText(span.end, 0)>>)

\* The error raised for a violated exclusion constraint on the table.
ExclusionViolation(rid, span, old) ==
    [type |-> "Database", code |-> "23P01", schema |-> "rsvp",
     table |-> "reservations",
     detail |->
        [some |-> TRUE,
         text |-> <<Text("Key "), KeyText(rid, span),
                    Text(") conflicts with existing key "),
                    KeyText(old.resource_id, old.timespan), Text(").")>>]]


(***************************************************************************)
(* Callers.                                                                *)
(***************************************************************************)

InFlight(q) == pc[q] = "store"

\* p's call fails in its prologue: nothing is sent to the store.
Reject(p, request, result) ==
    /\ pc' = [pc EXCEPT ![p] = "done"]
    /\ req' = [req EXCEPT ![p] = request]
    /\ res' = [res EXCEPT ![p] = result]
    /\ conc' = {s \in conc : p \notin s}
    /\ UNCHANGED <<store, nextId>>

\* p's call sends its statement and awaits the store.
Send(p, request) ==
    /\ pc' = [pc EXCEPT ![p] = "store"]
    /\ req' = [req EXCEPT ![p] = request]
    /\ res' = [res EXCEPT ![p] = NoRes]
    /\ conc' = {s \in conc : p \notin s}
                 \cup {{p, q} : q \in {x \in Procs \ {p} : InFlight(x)}}
    /\ UNCHANGED <<store, nextId>>

\* The awaited statement of p has executed: the call returns.
Return(p, result) ==
    /\ pc' = [pc EXCEPT ![p] = "done"]
    /\ res' = [res EXCEPT ![p] = result]
    /\ UNCHANGED <<req, conc>>

\* Nothing is stored and caller p holds the input of a call it has not
\* made.
Holding(p, request) ==
    /\ store = {} /\ nextId = 1 /\ conc = {}
    /\ pc = [q \in Procs |-> "idle"]
    /\ req = [q \in Procs |-> IF q = p THEN request ELSE NoReq]
    /\ res = [q \in Procs |-> NoRes]

(***************************************************************************)
(* reserve                                                                 *)
(***************************************************************************)

\* The row inserted by reserve's INSERT, with the id the store returns.
InsertedRow(r, id) ==
    [id |-> id, user_id |-> r.user_id, resource_id |-> r.resource_id,
     timespan |-> get_timespan(r), note |-> r.note,
     status |-> status_to_string(status_or_pending(r.status))]

\* A reserve that returns the reservation without the assigned id.
Reserved_NoId(r, id) == r

\* The reservation reserve returns: the submitted one, with rsvp.id set.
Reserved(r, id) == [r EXCEPT !.id = id]

\* reserve, up to its await: validate, then send the INSERT.
reserve(p, r) ==
    /\ ~InFlight(p)
    /\ IF validate(r) # "Ok"
       THEN Reject(p, [NoReq EXCEPT !.op = "reserve"], Err(validate(r)))
       ELSE Send(p, [NoReq EXCEPT !.op = "reserve", !.rsvp = r])

\* reserve's INSERT executes: the exclusion constraint is checked on the
\* key of the new row and the row inserted in one atomic statement; the
\* call returns the outcome.
reserve_insert(p) ==
    /\ InFlight(p)
    /\ req[p].op = "reserve"
    /\ LET r == req[p].rsvp
           row == InsertedRow(r, nextId)
           clash == Excluding(store, row.resource_id, row.timespan)
       IN  IF clash # {}
           THEN /\ \E old \in clash :
                     Return(p, error_from(ExclusionViolation(
                                   row.resource_id, row.timespan, old)))
                /\ UNCHANGED <<store, nextId>>
           ELSE /\ nextId <= MaxIds
                /\ store' = store \cup {row}
                /\ nextId' = nextId + 1
                /\ Return(p, Ok(Reserved(r, row.id)))

(***************************************************************************)
(* change_status                                                           *)
(***************************************************************************)

\* An UPDATE whose WHERE clause lacks the status guard.
ConfirmMatches_NoGuard(rows, id) == {row \in rows : row.id = id}

\* The rows matched by UPDATE ... WHERE id = $1 AND status = 'pending'.
ConfirmMatches(rows, id) == {row \in rows : row.id = id /\ row.status = "pending"}

change_status(p, id) ==
    /\ ~InFlight(p)
    /\ IF ~parse_uuid_ok(id)
       THEN Reject(p, [NoReq EXCEPT !.op = "change_status", !.id = id],
                   InvalidReservationId(id))
       ELSE Send(p, [NoReq EXCEPT !.op = "change_status", !.id = id])

change_status_update(p) ==
    /\ InFlight(p)
    /\ req[p].op = "change_status"
    /\ LET hit == ConfirmMatches(store, req[p].id)
       IN  IF hit = {}
           THEN /\ Return(p, error_from(RowNotFound))
                /\ UNCHANGED <<store, nextId>>
           ELSE \E row \in hit :
                  LET new == [row EXCEPT !.status = "confirmed"]
                  IN  /\ store' = (store \ {row}) \cup {new}
                      /\ Return(p, Ok(from_row(new)))
                      /\ UNCHANGED nextId

(***************************************************************************)
(* update_note                                                             *)
(***************************************************************************)

\* An UPDATE of the note that carries change_status's status guard.
NoteMatches_PendingOnly(rows, id) ==
    {row \in rows : row.id = id /\ row.status = "pending"}

\* The rows matched by UPDATE ... SET note = $1 WHERE id = $2.
NoteMatches(rows, id) == {row \in rows : row.id = id}

update_note(p, id, note) ==
    /\ ~InFlight(p)
    /\ IF ~parse_uuid_ok(id)
       THEN Reject(p, [NoReq EXCEPT !.op = "update_note", !.id = id,
                                    !.note = note],
                   InvalidReservationId(id))
       ELSE Send(p, [NoReq EXCEPT !.op = "update_note", !.id = id,
                                  !.note = note])

update_note_update(p) ==
    /\ InFlight(p)
    /\ req[p].op = "update_note"
    /\ LET hit == NoteMatches(store, req[p].id)
       IN  IF hit = {}
           THEN /\ Return(p, error_from(RowNotFound))
                /\ UNCHANGED <<store, nextId>>
           ELSE \E row \in hit :
                  LET new == [row EXCEPT !.note = req[p].note]
                  IN  /\ store' = (store \ {row}) \cup {new}
                      /\ Return(p, Ok(from_row(new)))
                      /\ UNCHANGED nextId

(***************************************************************************)
(* delete                                                                  *)
(***************************************************************************)

\* A DELETE restricted to pending rows.
DeleteMatches_PendingOnly(rows, id) ==
    {row \in rows : row.id = id /\ row.status = "pending"}

\* The rows removed by DELETE FROM rsvp.reservations WHERE id = $1.
DeleteMatches(rows, id) == {row \in rows : row.id = id}

delete(p, id) ==
    /\ ~InFlight(p)
    /\ IF ~parse_uuid_ok(id)
       THEN Reject(p, [NoReq EXCEPT !.op = "delete", !.id = id],
                   InvalidReservationId(id))
       ELSE Send(p, [NoReq EXCEPT !.op = "delete", !.id = id])

\* A delete that insists on a row, as fetch_one would.
DeleteResult_RowRequired(hit) ==
    IF hit = {} THEN error_from(RowNotFound) ELSE Ok(NoRsvp)

\* The result of delete: execute() reports no error when no row is
\* affected, and the row count is dropped.
DeleteResult(hit) == Ok(NoRsvp)

delete_execute(p) ==
    /\ InFlight(p)
    /\ req[p].op = "delete"
    /\ store' = store \ DeleteMatches(store, req[p].id)
    /\ Return(p, DeleteResult(DeleteMatches(store, req[p].id)))
    /\ UNCHANGED nextId

(***************************************************************************)
(* get                                                                     *)
(***************************************************************************)

\* The rows selected by SELECT * FROM rsvp.reservations WHERE id = $1.
GetMatches(rows, id) == {row \in rows : row.id = id}

get(p, id) ==
    /\ ~InFlight(p)
    /\ IF ~parse_uuid_ok(id)
       THEN Reject(p, [NoReq EXCEPT !.op = "get", !.id = id],
                   InvalidReservationId(id))
       ELSE Send(p, [NoReq EXCEPT !.op = "get", !.id = id])

get_select(p) ==
    /\ InFlight(p)
    /\ req[p].op = "get"
    /\ LET hit == GetMatches(store, req[p].id)
       IN  IF hit = {}
           THEN Return(p, error_from(RowNotFound))
           ELSE \E row \in hit : Return(p, Ok(from_row(row)))
    /\ UNCHANGED <<store, nextId>>

(***************************************************************************)
(* query                                                                   *)
(***************************************************************************)

\* A conversion that passes the empty string on as a value.
str_to_option_Some(str) == [some |-> TRUE, v |-> str]

\* str_to_option: None for the empty string.
str_to_option(str) ==
    IF str = "" THEN [some |-> FALSE, v |-> ""] ELSE [some |-> TRUE, v |-> str]

\* ReservationQuery::timespan: the range [start, end) of the query.
query_timespan(q) ==
    [start |-> to_datetime(q.start).t, end |-> to_datetime(q.end).t]

\* The first range contains the second (@>).
Contains(a, b) == a.start <= b.start /\ b.end <= a.end

\* The rows rsvp.query selects: those the range contains, with the status
\* given, and with the user and the resource given, if any.
QueryMatches(rows, uid, rid, during, status) ==
    {row \in rows :
        /\ Contains(during, row.timespan)
        /\ row.status = status
        /\ uid.some => row.user_id = uid.v
        /\ rid.some => row.resource_id = rid.v}

\* The orders in which rsvp.query may return the rows: by the start of
\* the range, descending if asked, rows of equal start in any order.
RECURSIVE Ordered(_, _)
Ordered(rows, desc) ==
    IF rows = {} THEN {<<>>}
    ELSE LET firsts ==
                 {row \in rows :
                     \A other \in rows :
                        IF desc
                        THEN other.timespan.start <= row.timespan.start
                        ELSE row.timespan.start <= other.timespan.start}
         IN  UNION {{<<first>> \o rest : rest \in Ordered(rows \ {first}, desc)} :
                       first \in firsts}

\* A page of a sequence, pages counted from 1.
Page(sq, page, pagesize) ==
    SubSeq(sq, (page - 1) * pagesize + 1,
           IF page * pagesize < Len(sq) THEN page * pagesize ELSE Len(sq))

\* The rows sequences rsvp.query may return.
rsvp_query(rows, uid, rid, during, status, page, desc, pagesize) ==
    {Page(sq, page, pagesize) :
        sq \in Ordered(QueryMatches(rows, uid, rid, during, status), desc)}

\* The rows decoded, in order.
from_rows(sq) == [i \in 1 .. Len(sq) |-> from_row(sq[i])]

\* query, up to its await: it has no check of its own.
query(p, q) ==
    /\ ~InFlight(p)
    /\ Send(p, [NoReq EXCEPT !.op = "query", !.query = q])

\* The SELECT of rsvp.query(..) executes, and query returns the rows.
query_fetch(p) ==
    /\ InFlight(p)
    /\ req[p].op = "query"
    /\ LET q == req[p].query
       IN  \E sq \in rsvp_query(store, str_to_option(q.user_id),
                                 str_to_option(q.resource_id),
                                 query_timespan(q),
                                 status_to_string(status_or_pending(q.status)),
                                 q.page, q.desc, q.pagesize) :
              Return(p, [Ok(NoRsvp) EXCEPT !.rsvps = from_rows(sq)])
    /\ UNCHANGED <<store, nextId>>

(***************************************************************************)
(* Specification.                                                          *)
(***************************************************************************)

Init ==
    /\ store = {}
    /\ nextId = 1
    /\ pc = [p \in Procs |-> "idle"]
    /\ req = [p \in Procs |-> NoReq]
    /\ res = [p \in Procs |-> NoRes]
    /\ conc = {}

\* Reservations submitted by the single caller, all for one resource:
\* with the default note and status, every combination of present and
\* absent fields, the whole seconds 0 and 1 in either order; and every
\* window with every status, and with every note.
ReserveInputs ==
    {r \in Reservations :
        /\ r.resource_id \in {"", "r1"}
        /\ \/ /\ r.note = "" /\ r.status = "Pending"
              /\ r.start_time \in {NoTime, 0, TicksPerSecond}
              /\ r.end_time \in {NoTime, 0, TicksPerSecond}
           \/ /\ r.user_id # "" /\ r.resource_id # ""
              /\ r.start_time \in {0, TicksPerSecond}
              /\ r.end_time \in {TicksPerSecond, 2 * TicksPerSecond}
              /\ r.start_time < r.end_time
              /\ \/ r.note = "" /\ r.status \in {"Blocked", "Other"}
                 \/ r.status = "Pending"}

\* A single caller: calls follow one another.
Next ==
    \E p \in {"p1"} :
        \/ \E r \in ReserveInputs : reserve(p, r)
        \/ reserve_insert(p)
        \/ \E id \in IdInputs : change_status(p, id)
        \/ change_status_update(p)
        \/ \E id \in IdInputs, note \in Notes : update_note(p, id, note)
        \/ update_note_update(p)
        \/ \E id \in IdInputs : delete(p, id)
        \/ delete_execute(p)
        \/ \E id \in IdInputs : get(p, id)
        \/ get_select(p)

Spec == Init /\ [][Next]_vars

\* Reservations submitted by racing callers: pending reservations of
\* resource r1 for the windows [0,1), [1,2) and [0,2), which touch or
\* overlap, and of resource r2 for [0,2).
RaceInputs ==
    {r \in Reservations :
        /\ r.user_id = "u1" /\ r.resource_id \in {"r1", "r2"}
        /\ r.start_time \in {0, TicksPerSecond}
        /\ r.end_time \in {TicksPerSecond, 2 * TicksPerSecond}
        /\ r.start_time < r.end_time
        /\ r.resource_id = "r2" =>
              (r.start_time = 0 /\ r.end_time = 2 * TicksPerSecond)
        /\ r.note = "" /\ r.status = "Pending"}

\* Concurrent callers: the statements of calls in flight execute in any
\* order.
NextConc ==
    \E p \in Procs :
        \/ \E r \in RaceInputs : reserve(p, r)
        \/ reserve_insert(p)
        \/ \E id \in Uuids : change_status(p, id)
        \/ change_status_update(p)
        \/ \E id \in Uuids : update_note(p, id, "n1")
        \/ update_note_update(p)
        \/ \E id \in Uuids : delete(p, id)
        \/ delete_execute(p)

SpecConc == Init /\ [][NextConc]_vars

(***************************************************************************)
(* Round trip: one caller reserves, another fetches by id.                 *)
(***************************************************************************)

\* Valid reservations of one resource with every status value and note,
\* for windows whose bounds are whole seconds or not.
RoundTripInputs ==
    {r \in Reservations :
        /\ r.user_id = "u1" /\ r.resource_id = "r1"
        /\ r.start_time \in {0, 1}
        /\ r.end_time \in {TicksPerSecond, TicksPerSecond + 1}}

NextRoundTrip ==
    \/ \E r \in RoundTripInputs : reserve("p1", r)
    \/ reserve_insert("p1")
    \/ \E id \in Uuids : get("p2", id)
    \/ get_select("p2")

SpecRoundTrip == Init /\ [][NextRoundTrip]_vars

(***************************************************************************)
(* Queries: one caller reserves, confirms and queries.                     *)
(***************************************************************************)

\* Reservations of two users and two resources: of r1 for [0,1) and
\* [1,2), of r2 for [0,1); Pending, u1's also Confirmed or with no status.
QueryReserveInputs ==
    {r \in Reservations :
        /\ r.user_id \in {"u1", "u2"} /\ r.resource_id \in {"r1", "r2"}
        /\ \/ r.start_time = 0 /\ r.end_time = TicksPerSecond
           \/ /\ r.resource_id = "r1"
              /\ r.start_time = TicksPerSecond /\ r.end_time = 2 * TicksPerSecond
        /\ r.note = ""
        /\ \/ r.status = "Pending"
           \/ r.user_id = "u1" /\ r.status \in {"Confirmed", "Unknown"}}

\* Queries: every combination of the three filters, empty and not, with
\* the windows [0,1), [0,2) and [1,2) and the default page; and queries
\* with no filter for [0,2), for pages 1 and 2 of 1 and of 10, in either
\* direction.
QueryInputs ==
    {[user_id |-> uid, resource_id |-> rid, start |-> st, end |-> en,
      status |-> status, page |-> DefaultPage, pagesize |-> DefaultPageSize,
      desc |-> FALSE] :
        uid \in {"", "u1"}, rid \in {"", "r1"},
        st \in {0, TicksPerSecond}, en \in {TicksPerSecond, 2 * TicksPerSecond},
        status \in {"Unknown", "Pending", "Confirmed", "Other"}}
    \cup {[NoQuery EXCEPT !.start = 0, !.end = 2 * TicksPerSecond,
                          !.status = "Pending",
                          !.page = page, !.pagesize = pagesize, !.desc = desc] :
            page \in {1, 2}, pagesize \in {1, DefaultPageSize}, desc \in BOOLEAN}

NextQuery ==
    \E p \in {"p1"} :
        \/ \E r \in QueryReserveInputs : reserve(p, r)
        \/ reserve_insert(p)
        \/ \E q \in QueryInputs : query(p, q)
        \/ query_fetch(p)

SpecQuery == Init /\ [][NextQuery]_vars

(***************************************************************************)
(* Conflicts: one caller reserves and deletes.                             *)
(***************************************************************************)

\* Pending reservations of two resources, one named by a word and one
\* not, for the windows [0,1), [0,2) and [1,2) with bounds that are whole
\* seconds or not.
ConflictInputs ==
    {r \in Reservations :
        /\ r.user_id = "u1" /\ r.resource_id \in {"r1", "room 1"}
        /\ r.start_time \in {0, 1, TicksPerSecond}
        /\ r.end_time \in {TicksPerSecond, TicksPerSecond + 1, 2 * TicksPerSecond}
        /\ validate(r) = "Ok"
        /\ r.note = "" /\ r.status = "Pending"}

NextConflict ==
    \E p \in {"p1"} :
        \/ \E r \in ConflictInputs : reserve(p, r)
        \/ reserve_insert(p)
        \/ \E id \in Uuids : delete(p, id)
        \/ delete_execute(p)

SpecConflict == Init /\ [][NextConflict]_vars

(***************************************************************************)
(* Release: one caller reserves and deletes, another confirms.             *)
(***************************************************************************)

NextRelease ==
    \/ \E r \in RaceInputs : reserve("p1", r)
    \/ reserve_insert("p1")
    \/ \E id \in Uuids : delete("p1", id)
    \/ delete_execute("p1")
    \/ \E id \in Uuids : change_status("p2", id)
    \/ change_status_update("p2")

SpecRelease == Init /\ [][NextRelease]_vars

(***************************************************************************)
(* Status flow: one caller reserves, confirms, annotates and deletes,      *)
(* while another confirms and annotates.                                   *)
(***************************************************************************)

\* Reservations of one resource for the windows [0,1) and [1,2), with the
\* default status and with the status given by the caller.
FlowInputs ==
    {r \in Reservations :
        /\ r.user_id = "u1" /\ r.resource_id = "r1"
        /\ \/ r.start_time = 0 /\ r.end_time = TicksPerSecond
           \/ r.start_time = TicksPerSecond /\ r.end_time = 2 * TicksPerSecond
        /\ r.note = ""
        /\ r.status \in {"Pending", "Confirmed", "Blocked"}}

NextFlow ==
    \/ \E r \in FlowInputs : reserve("p1", r)
    \/ reserve_insert("p1")
    \/ \E id \in Uuids : delete("p1", id)
    \/ delete_execute("p1")
    \/ \E p \in Procs :
          \/ \E id \in Uuids : change_status(p, id)
          \/ change_status_update(p)
          \/ \E id \in Uuids : update_note(p, id, "n1")
          \/ update_note_update(p)

SpecFlow == Init /\ [][NextFlow]_vars

(***************************************************************************)
(* Error translation and the diagnostic parser on their own: each applied  *)
(* to one store error, or diagnostic, drawn by the initial state.          *)
(***************************************************************************)

\* The diagnostic of conflict.rs's tests, its instants counted in hours
\* from 2022-12-25 00:00:00 UTC.
ERR_MSG ==
    <<Text("Key "),
      Clause("resource_id", "timespan", "ocean-view-room-713",
             <<DateText(46, 0), DateText(139, 0)>>),
      Text(") conflicts with existing key "),
      Clause("resource_id", "timespan", "ocean-view-room-713",
             <<DateText(22, 0), DateText(91, 0)>>),
      Text(").")>>

\* A well-formed clause, written at offset +00.
GoodClause == KeyText("r1", [start |-> 1, end |-> 2])

\* Ranges: no part, one, two, three; dates at several offsets, and texts
\* that are no dates.
RangeTexts ==
    {<<>>, <<DateText(0, 0)>>, <<DateText(0, 0), DateText(1, 0)>>,
     <<DateText(1, 1), DateText(0, -2)>>,
     <<DateText(0, 0), NotADate>>, <<NotADate, DateText(1, 0)>>,
     <<DateText(0, 0), DateText(1, 0), DateText(2, 0)>>}

\* Clauses with every pair of keys, a word or another text for the
\* resource, and every range.
Clauses ==
    {Clause(k1, k2, v1, v2) :
        k1 \in {"resource_id", "timespan", "key"},
        k2 \in {"resource_id", "timespan", "key"},
        v1 \in {"r2", "room 1"}, v2 \in RangeTexts}

\* Sequences of at most n pieces of the set.
RECURSIVE SeqsUpTo(_, _)
SeqsUpTo(set, n) ==
    IF n = 0 THEN {<<>>}
    ELSE LET shorter == SeqsUpTo(set, n - 1)
         IN  shorter \cup {Append(sq, x) : sq \in shorter, x \in set}

\* Diagnostics: the literal; up to MaxPieces pieces of text and well-formed
\* clauses; and every clause before, after and on both sides of a
\* well-formed one.
Diagnostics ==
    {ERR_MSG}
    \cup SeqsUpTo({Text("Key "), GoodClause,
                   KeyText("r2", [start |-> 0, end |-> 2])}, MaxPieces)
    \cup {<<c, Text(" conflicts "), GoodClause>> : c \in Clauses}
    \cup {<<GoodClause, Text(" conflicts "), c>> : c \in Clauses}
    \cup {<<c, c>> : c \in Clauses}

\* Store errors: database errors with the signature of the exclusion
\* constraint and every diagnostic or none; database errors with another
\* code, schema or table; row-not-found; and errors of other kinds.
StoreErrors ==
    {[type |-> "Database", code |-> "23P01", schema |-> "rsvp",
      table |-> "reservations", detail |-> d] :
        d \in {NoDetail} \cup {[some |-> TRUE, text |-> t] : t \in Diagnostics}}
    \cup {[type |-> "Database", code |-> c, schema |-> sch, table |-> tbl,
           detail |-> d] :
            c \in {"23P01", "23505"}, sch \in {"", "rsvp", "public"},
            tbl \in {"", "reservations", "users"},
            d \in {NoDetail, [some |-> TRUE, text |-> ERR_MSG]}}
    \cup {RowNotFound, [NoErr EXCEPT !.type = "PoolTimedOut"]}

InitTranslate ==
    \/ \E e \in StoreErrors :
          Holding("p1", [NoReq EXCEPT !.op = "error_from", !.err = e])
    \/ \E t \in Diagnostics :
          Holding("p1", [NoReq EXCEPT !.op = "from_str",
                                     !.err.detail = [some |-> TRUE, text |-> t]])

\* Error::from(e) returns, or panics.
error_from_apply(p) ==
    /\ pc[p] = "idle"
    /\ req[p].op = "error_from"
    /\ pc' = [pc EXCEPT ![p] = "done"]
    /\ res' = [res EXCEPT ![p] = error_from(req[p].err)]
    /\ UNCHANGED <<store, nextId, req, conc>>

\* s.parse::<ReservationConflictInfo>() returns, or panics.
from_str_apply(p) ==
    /\ pc[p] = "idle"
    /\ req[p].op = "from_str"
    /\ pc' = [pc EXCEPT ![p] = "done"]
    /\ res' = [res EXCEPT ![p] =
                  LET info == parse_conflict(req[p].err.detail.text)
                  IN  IF info.tag = "Panic" THEN Panic
                      ELSE [Ok(NoRsvp) EXCEPT !.info = info]]
    /\ UNCHANGED <<store, nextId, req, conc>>

NextTranslate ==
    \E p \in {"p1"} :
        \/ error_from_apply(p)
        \/ from_str_apply(p)

SpecTranslate == InitTranslate /\ [][NextTranslate]_vars

(***************************************************************************)
(* Reservation::validate on its own: the function applied to one           *)
(* reservation, drawn by the initial state.                                *)
(***************************************************************************)

\* Every combination of empty and non-empty identifiers with absent and
\* present timestamps, whole-second and not.
ValidateInputs ==
    {r \in Reservations : r.note = "" /\ r.status = "Pending"}

InitValidate ==
    \E r \in ValidateInputs :
        Holding("p1", [NoReq EXCEPT !.op = "validate", !.rsvp = r])

\* rsvp.validate() returns.
validate_apply(p) ==
    /\ pc[p] = "idle"
    /\ req[p].op = "validate"
    /\ pc' = [pc EXCEPT ![p] = "done"]
    /\ res' = [res EXCEPT ![p] =
                  IF validate(req[p].rsvp) = "Ok" THEN Ok(NoRsvp)
                  ELSE Err(validate(req[p].rsvp))]
    /\ UNCHANGED <<store, nextId, req, conc>>

NextValidate == \E p \in {"p1"} : validate_apply(p)

SpecValidate == InitValidate /\ [][NextValidate]_vars


(***************************************************************************)
(* Properties.                                                             *)
(***************************************************************************)

\* Two half-open windows [start, end) share an instant.
WindowsOverlap(s1, e1, s2, e2) == s1 < e2 /\ s2 < e1

RowsOverlap(a, b) ==
    WindowsOverlap(a.timespan.start, a.timespan.end,
                   b.timespan.start, b.timespan.end)

Done(p, op) == pc[p] = "done" /\ req[p].op = op

\* C1: in every reachable state, whatever the interleaving of reserve,
\* change_status, update_note and delete calls, no two stored reservations
\* of the same resource have overlapping windows [start, end).
C1_NoOverlap ==
    \A a \in store : \A b \in store :
        (a # b /\ a.resource_id = b.resource_id) => ~RowsOverlap(a, b)

\* Two reservations of one resource are stored side by side while an
\* overlapping one has been rejected and a stored one has been confirmed.
C1_Witness ==
    /\ \E a \in store : \E b \in store :
          /\ a # b /\ a.resource_id = b.resource_id
          /\ a.status = "confirmed" /\ b.note = "n1"
    /\ \E p \in Procs : Done(p, "reserve") /\ res[p].kind = "ConflictReservation"

\* p and q have both returned from reserve calls that were in flight
\* together, for one resource and overlapping windows.
RacedReserves(p, q) ==
    /\ p # q /\ {p, q} \in conc
    /\ Done(p, "reserve") /\ Done(q, "reserve")
    /\ req[p].rsvp.resource_id = req[q].rsvp.resource_id
    /\ WindowsOverlap(get_timespan(req[p].rsvp).start,
                      get_timespan(req[p].rsvp).end,
                      get_timespan(req[q].rsvp).start,
                      get_timespan(req[q].rsvp).end)

\* The window of p's reserve overlaps a stored reservation of its resource.
OverlapsStored(p) ==
    \E row \in store :
        /\ row.resource_id = req[p].rsvp.resource_id
        /\ WindowsOverlap(row.timespan.start, row.timespan.end,
                          get_timespan(req[p].rsvp).start,
                          get_timespan(req[p].rsvp).end)

\* C2 as stated: of two concurrent reserve calls for one resource with
\* overlapping windows exactly one succeeds and the other fails with
\* ConflictReservation; never both succeed, never both fail.
C2_ExactlyOneWins ==
    \A p \in Procs : \A q \in Procs :
        RacedReserves(p, q) =>
            \/ res[p].kind = "Ok" /\ res[q].kind = "ConflictReservation"
            \/ res[q].kind = "Ok" /\ res[p].kind = "ConflictReservation"

\* C2 amended: of two concurrent reserve calls for one resource with
\* overlapping windows, with no other call in flight, at most one succeeds,
\* each one that fails returns ConflictReservation from that call, and both
\* fail only when each window overlaps a reservation that is stored for the
\* resource.
C2_AtMostOneWins ==
    \A p \in Procs : \A q \in Procs :
        RacedReserves(p, q) =>
            /\ ~(res[p].kind = "Ok" /\ res[q].kind = "Ok")
            /\ res[p].kind \in {"Ok", "ConflictReservation"}
            /\ res[q].kind \in {"Ok", "ConflictReservation"}
            /\ (res[p].kind # "Ok" /\ res[q].kind # "Ok")
                   => (OverlapsStored(p) /\ OverlapsStored(q))

\* Two reserve calls raced for a free window: one won, the other was
\* rejected.
C2_Witness ==
    \E p \in Procs : \E q \in Procs :
        /\ RacedReserves(p, q)
        /\ res[p].kind = "Ok" /\ res[q].kind = "ConflictReservation"
        /\ Cardinality(store) = 1

\* p and q have both returned from change_status calls for one id that
\* were in flight together.
RacedConfirms(p, q) ==
    /\ p # q /\ {p, q} \in conc
    /\ Done(p, "change_status") /\ Done(q, "change_status")
    /\ req[p].id = req[q].id

Confirmed(p) ==
    /\ res[p].kind = "Ok"
    /\ res[p].rsvp.id = req[p].id
    /\ res[p].rsvp.status = "Confirmed"

\* C4: of the change_status calls for one id that are in flight together,
\* exactly one returns the Confirmed reservation and every other one fails
\* with NotFound; all of them fail (with NotFound) only when the id was not
\* Pending, and is therefore not Pending afterwards either.
C4_OneConfirmer ==
    \A p \in Procs : \A q \in Procs :
        RacedConfirms(p, q) =>
            \/ Confirmed(p) /\ res[q].kind = "NotFound"
            \/ Confirmed(q) /\ res[p].kind = "NotFound"
            \/ /\ res[p].kind = "NotFound" /\ res[q].kind = "NotFound"
               /\ ~\E row \in store : row.id = req[p].id /\ row.status = "pending"

\* Two confirmers raced for a Pending reservation: one confirmed it, the
\* other found nothing.
C4_Witness ==
    \E p \in Procs : \E q \in Procs :
        /\ RacedConfirms(p, q)
        /\ Confirmed(p) /\ res[q].kind = "NotFound"
        /\ \E row \in store : row.id = req[p].id /\ row.status = "confirmed"


\* This step is the prologue of a call of p.
Begins(p) ==
    /\ pc[p] # "store"
    /\ <<pc'[p], req'[p], res'[p]>> # <<pc[p], req[p], res[p]>>

\* This step executes the statement of p's call of op, which returns.
Executes(p, op) == pc[p] = "store" /\ req[p].op = op /\ pc'[p] = "done"

StatusName(s) ==
    CASE s = "pending" -> "Pending"
      [] s = "confirmed" -> "Confirmed"
      [] s = "blocked" -> "Blocked"
      [] s = "unknown" -> "Unknown"

\* C3: change_status(id) with a well-formed id returns the reservation with
\* status Confirmed, and sets the stored status to confirmed, exactly when
\* the stored status of id is pending; otherwise (confirmed, blocked, not
\* stored) it fails with NotFound and the store is unchanged.  A successful
\* call leaves the status confirmed, so a second call on that id falls in
\* the NotFound case.
C3_ConfirmOnlyPending ==
    [][\A p \in Procs :
         Executes(p, "change_status") =>
            LET id == req[p].id
            IN  IF \E row \in store : row.id = id /\ row.status = "pending"
                THEN /\ res'[p].kind = "Ok"
                     /\ res'[p].rsvp.id = id
                     /\ res'[p].rsvp.status = "Confirmed"
                     /\ store' = {IF row.id = id
                                  THEN [row EXCEPT !.status = "confirmed"]
                                  ELSE row : row \in store}
                ELSE /\ res'[p].kind = "NotFound"
                     /\ store' = store]_vars

\* change_status has returned NotFound for a stored reservation that an
\* earlier call confirmed.
C3_Witness ==
    \E p \in Procs :
        /\ Done(p, "change_status") /\ res[p].kind = "NotFound"
        /\ \E row \in store : row.id = req[p].id /\ row.status = "confirmed"

\* C5 as stated: reserve of a valid reservation whose window overlaps no
\* stored reservation of its resource returns a reservation with a
\* non-empty id and status Pending.
C5_ReturnsPending ==
    [][\A p \in Procs :
         (Executes(p, "reserve") /\ ~OverlapsStored(p)) =>
            /\ res'[p].kind = "Ok"
            /\ res'[p].rsvp.id # EmptyId
            /\ res'[p].rsvp.status = "Pending"]_vars

\* C5 amended: reserve of a valid reservation whose window overlaps no
\* stored reservation of its resource returns the submitted reservation
\* with a non-empty id, the id of the row it stored; its status is the
\* status the caller submitted, so Pending when the caller submitted
\* Pending, and then the stored row is pending too.
C5_ReturnsSubmittedStatus ==
    [][\A p \in Procs :
         (Executes(p, "reserve") /\ ~OverlapsStored(p)) =>
            /\ res'[p].kind = "Ok"
            /\ res'[p].rsvp.id # EmptyId
            /\ res'[p].rsvp.status = req[p].rsvp.status
            /\ \E row \in store' \ store :
                  /\ row.id = res'[p].rsvp.id
                  /\ req[p].rsvp.status = "Pending" => row.status = "pending"]_vars

\* reserve has returned a reservation with an id and status Pending.
C5_Witness ==
    \E p \in Procs :
        /\ Done(p, "reserve") /\ res[p].kind = "Ok"
        /\ res[p].rsvp.id # EmptyId /\ res[p].rsvp.status = "Pending"
        /\ \E row \in store : row.id = res[p].rsvp.id /\ row.status = "pending"

WellFormed(r) ==
    /\ r.user_id # "" /\ r.resource_id # ""
    /\ r.start_time # NoTime /\ r.end_time # NoTime
    /\ r.start_time < r.end_time

\* C6: a reserve call that fails leaves the stored reservations as they
\* were.  A call that returns from its prologue returns a Validator error
\* without a statement sent; a statement is sent only for a reservation
\* that is valid; a statement that fails returns ConflictReservation.
C6_FailedReserveKeepsStore ==
    [][\A p \in Procs :
         /\ (Begins(p) /\ req'[p].op = "reserve" /\ pc'[p] = "done") =>
               /\ res'[p].kind \in {"InvalidUserId", "InvalidResourceId",
                                    "InvalidTime"}
               /\ store' = store /\ nextId' = nextId
         /\ (Begins(p) /\ req'[p].op = "reserve" /\ pc'[p] = "store") =>
               /\ WellFormed(req'[p].rsvp)
               /\ store' = store /\ nextId' = nextId
         /\ (Executes(p, "reserve") /\ res'[p].kind # "Ok") =>
               /\ res'[p].kind = "ConflictReservation"
               /\ store' = store /\ nextId' = nextId]_vars

\* A reserve call has failed with InvalidTime while a reservation is
\* stored.
C6_Witness ==
    \E p \in Procs :
        /\ Done(p, "reserve") /\ res[p].kind = "InvalidTime"
        /\ store # {}

IdOps == {"change_status", "update_note", "delete", "get"}

\* C7: change_status, update_note, delete and get, called with an id that
\* is not well-formed, fail with InvalidReservationId carrying that id, in
\* the prologue: no statement is sent and the store does not change.
C7_MalformedIdRejected ==
    [][\A p \in Procs :
         (Begins(p) /\ req'[p].op \in IdOps /\ req'[p].id \notin Uuids) =>
            /\ pc'[p] = "done"
            /\ res'[p].kind = "InvalidReservationId"
            /\ res'[p].badid = req'[p].id
            /\ store' = store /\ nextId' = nextId]_vars

\* delete has been refused a malformed, non-empty id while a reservation
\* is stored.
C7_Witness ==
    \E p \in Procs :
        /\ Done(p, "delete") /\ res[p].kind = "InvalidReservationId"
        /\ req[p].id = MalformedId /\ res[p].badid = MalformedId
        /\ store # {}

\* C8: delete(id) leaves no reservation stored under id, whatever its
\* status was; only reserve stores a reservation under an id that has none;
\* and get(id) of an id with no stored reservation returns NotFound.  So
\* delete(id) followed by get(id), with no reserve between, is NotFound.
C8_DeleteThenGet ==
    [][/\ \A p \in Procs :
            /\ Executes(p, "delete") => ~\E row \in store' : row.id = req[p].id
            /\ (Executes(p, "get") /\ ~\E row \in store : row.id = req[p].id)
                   => res'[p].kind = "NotFound"
       /\ \A id \in Uuids :
            ((~\E row \in store : row.id = id) /\ (\E row \in store' : row.id = id))
                => \E p \in Procs : Executes(p, "reserve")]_vars

\* get has returned NotFound for an id that was assigned to a reservation,
\* which has been deleted.
C8_Witness ==
    \E p \in Procs :
        /\ Done(p, "get") /\ res[p].kind = "NotFound"
        /\ req[p].id < nextId
        /\ ~\E row \in store : row.id = req[p].id

\* C9: delete(id) with a well-formed id returns success whether or not id
\* is stored; it removes the reservation stored under id and nothing else,
\* so on an id that is not stored it leaves the store unchanged, as does a
\* second delete(id).
C9_DeleteIdempotent ==
    [][\A p \in Procs :
         Executes(p, "delete") =>
            /\ res'[p].kind = "Ok"
            /\ store' = {row \in store : row.id # req[p].id}
            /\ (~\E row \in store : row.id = req[p].id) => store' = store]_vars

\* delete has succeeded on an id that was never stored.
C9_Witness ==
    \E p \in Procs :
        /\ Done(p, "delete") /\ res[p].kind = "Ok"
        /\ req[p].id >= nextId
        /\ store # {}

\* C10: update_note(id, note) on a stored reservation succeeds at any
\* status, sets its note, returns it with the new note, and leaves its
\* other fields and every other reservation unchanged; on an id that is not
\* stored it fails with NotFound and changes nothing.
C10_UpdateNoteFrame ==
    [][\A p \in Procs :
         Executes(p, "update_note") =>
            LET id == req[p].id
            IN  IF \E row \in store : row.id = id
                THEN /\ res'[p].kind = "Ok"
                     /\ store' = {IF row.id = id
                                  THEN [row EXCEPT !.note = req[p].note]
                                  ELSE row : row \in store}
                     /\ \E row \in store :
                          /\ row.id = id
                          /\ res'[p].rsvp =
                               [id |-> id, user_id |-> row.user_id,
                                resource_id |-> row.resource_id,
                                start_time |->
                                    row.timespan.start * TicksPerSecond,
                                end_time |->
                                    row.timespan.end * TicksPerSecond,
                                note |-> req[p].note,
                                status |-> StatusName(row.status)]
                ELSE /\ res'[p].kind = "NotFound"
                     /\ store' = store]_vars

\* update_note has replaced the note of a Blocked reservation.
C10_Witness ==
    \E p \in Procs :
        /\ Done(p, "update_note") /\ res[p].kind = "Ok"
        /\ res[p].rsvp.note = "n1" /\ res[p].rsvp.status = "Blocked"
        /\ \E row \in store :
              row.id = req[p].id /\ row.note = "n1" /\ row.status = "blocked"


\* C11: validate(r) fails with InvalidUserId iff user_id is empty; with
\* InvalidResourceId iff resource_id is empty (user_id, checked first, being
\* non-empty); with InvalidTime iff the identifiers are non-empty and a
\* time bound is absent or start >= end; and returns Ok otherwise.
C11_ValidateAsStated ==
    \A p \in Procs :
        Done(p, "validate") =>
            LET r == req[p].rsvp
                k == res[p].kind
                ids == r.user_id # "" /\ r.resource_id # ""
                badtime == \/ r.start_time = NoTime \/ r.end_time = NoTime
                           \/ r.start_time >= r.end_time
            IN  /\ (k = "InvalidUserId") <=> (r.user_id = "")
                /\ (k = "InvalidResourceId") <=>
                        (r.user_id # "" /\ r.resource_id = "")
                /\ (k = "InvalidTime") <=> (ids /\ badtime)
                /\ (k = "Ok") <=> (ids /\ ~badtime)

\* validate has refused, with InvalidTime, a reservation whose start is
\* before its end within one second.
C11_Witness ==
    \E p \in Procs :
        /\ Done(p, "validate") /\ res[p].kind = "InvalidTime"
        /\ req[p].rsvp.user_id # "" /\ req[p].rsvp.resource_id # ""
        /\ req[p].rsvp.start_time # NoTime
        /\ req[p].rsvp.start_time < req[p].rsvp.end_time


\* q has fetched the reservation that p's reserve returned.
Fetched(p, q) ==
    /\ Done(p, "reserve") /\ res[p].kind = "Ok"
    /\ Done(q, "get") /\ res[q].kind = "Ok"
    /\ req[q].id = res[p].rsvp.id

\* The fields other than id and status of b are those of a, the
\* timestamps to one-second resolution.
SameButStatus(a, b) ==
    /\ b.user_id = a.user_id /\ b.resource_id = a.resource_id
    /\ b.note = a.note
    /\ b.start_time # NoTime /\ b.end_time # NoTime
    /\ to_datetime(b.start_time) = to_datetime(a.start_time)
    /\ to_datetime(b.end_time) = to_datetime(a.end_time)

\* C12 as stated: get of the id returned by reserve yields the user_id,
\* resource_id, start_time and end_time (to one-second resolution), note and
\* status submitted, whatever status value was submitted.
C12_RoundTripAnyStatus ==
    \A p \in Procs : \A q \in Procs :
        Fetched(p, q) =>
            /\ SameButStatus(req[p].rsvp, res[q].rsvp)
            /\ res[q].rsvp.status = req[p].rsvp.status

\* C12 amended: get of the id returned by reserve yields the user_id,
\* resource_id, start_time and end_time (to one-second resolution) and note
\* submitted, and the status submitted when it is one of Unknown, Pending,
\* Confirmed and Blocked; a status number that names no status comes back
\* as Pending.
C12_RoundTripNamedStatus ==
    \A p \in Procs : \A q \in Procs :
        Fetched(p, q) =>
            /\ res[q].rsvp.id = res[p].rsvp.id
            /\ SameButStatus(req[p].rsvp, res[q].rsvp)
            /\ res[q].rsvp.status =
                  IF req[p].rsvp.status \in
                         {"Unknown", "Pending", "Confirmed", "Blocked"}
                  THEN req[p].rsvp.status
                  ELSE "Pending"

\* A Confirmed reservation with a note and bounds that are not whole
\* seconds has been reserved and fetched.
C12_Witness ==
    \E p \in Procs : \E q \in Procs :
        /\ Fetched(p, q)
        /\ req[p].rsvp.status = "Confirmed" /\ req[p].rsvp.note = "n1"
        /\ req[p].rsvp.start_time = 1
        /\ req[p].rsvp.end_time = TicksPerSecond + 1
        /\ res[q].rsvp.status = "Confirmed"


\* C13: no stored reservation has status Unknown, whatever status value
\* the caller passes to reserve.
C13_NoUnknownStored == \A row \in store : row.status # "unknown"

\* A reservation submitted with status Unknown is stored with status
\* unknown, and get returns it with status Unknown.
C13_Witness ==
    \E p \in Procs : \E q \in Procs :
        /\ Fetched(p, q)
        /\ req[p].rsvp.status = "Unknown"
        /\ res[q].rsvp.status = "Unknown"
        /\ \E row \in store : row.id = req[q].id /\ row.status = "unknown"

\* The reservation stored under id, if any, is blocked.
BlockedAt(rows, id) == \E row \in rows : row.id = id /\ row.status = "blocked"

\* C14 as stated: from a store with no Blocked reservation, no sequence of
\* reserve, change_status, update_note and delete calls produces a stored
\* reservation with status Blocked.
C14_NoBlockedStored == \A row \in store : row.status # "blocked"

\* C14 amended: a stored reservation is Blocked only from its creation by
\* a reserve call that submitted status Blocked; change_status, update_note
\* and delete never make a reservation Blocked, and reserve does not when
\* it is given another status.
C14_BlockedOnlyAsSubmitted ==
    [][\A id \in Uuids :
         (BlockedAt(store', id) /\ ~BlockedAt(store, id)) =>
            \E p \in Procs :
               /\ Executes(p, "reserve")
               /\ req[p].rsvp.status = "Blocked"
               /\ res'[p].kind = "Ok" /\ res'[p].rsvp.id = id
               /\ ~\E row \in store : row.id = id]_vars

\* A reservation submitted as Blocked is stored blocked, next to a
\* confirmed one, and change_status has found nothing to confirm under
\* its id.
C14_Witness ==
    \E p \in Procs :
        /\ Done(p, "change_status") /\ res[p].kind = "NotFound"
        /\ BlockedAt(store, req[p].id)
        /\ \E row \in store : row.status = "confirmed"


\* The clauses of a diagnostic that the pattern matches.
ClauseMatches(str) == SelectSeq(str, Captured)

\* The keys of the clause lack resource_id or timespan.
MissingKey(c) ==
    "resource_id" \notin {c.k1, c.k2} \/ "timespan" \notin {c.k1, c.k2}

\* The range of the clause holds a text that is no timestamp.
BadStamp(c) == \E i \in 1 .. Len(c.v2) : ~c.v2[i].ok

\* C15: the parser is total: for every diagnostic it returns Parsed or
\* Unparsed(raw) with raw the input verbatim, never a hard failure; an
\* input with a number of clause matches other than 2, with a missing
\* resource_id or timespan key, or with an unparseable timestamp yields
\* Unparsed.
C15_ParserTotal ==
    \A p \in Procs :
        Done(p, "from_str") =>
            LET str == req[p].err.detail.text
                ms == ClauseMatches(str)
            IN  /\ res[p].kind = "Ok"
                /\ res[p].info.tag \in {"Parsed", "Unparsed"}
                /\ res[p].info.tag = "Unparsed" => res[p].info.raw = str
                /\ (\/ Len(ms) # 2
                    \/ \E i \in 1 .. Len(ms) : MissingKey(ms[i]) \/ BadStamp(ms[i]))
                       => res[p].info.tag = "Unparsed"

\* The parser has panicked on a diagnostic of two clauses with well-formed
\* ranges, the first of which has no resource_id key.
C15_Witness ==
    \E p \in Procs :
        /\ Done(p, "from_str") /\ res[p].kind = "Panic"
        /\ Len(ClauseMatches(req[p].err.detail.text)) = 2
        /\ ClauseMatches(req[p].err.detail.text)[1].k1 = "key"
        /\ ClauseMatches(req[p].err.detail.text)[1].k2 = "timespan"

\* The error has the signature of the reservations exclusion constraint.
IsExclusion(e) ==
    /\ e.type = "Database" /\ e.code = "23P01"
    /\ e.schema = "rsvp" /\ e.table = "reservations"

\* C16: translation is total: row-not-found becomes NotFound; every
\* violation of the reservations exclusion constraint becomes
\* ConflictReservation with a Parsed or Unparsed detail, also when the store
\* attaches no detail or one that is not recognised; every other store
\* error becomes DbError; the translation itself never fails.
C16_TranslationTotal ==
    \A p \in Procs :
        Done(p, "error_from") =>
            LET e == req[p].err
            IN  /\ res[p].kind \in {"NotFound", "ConflictReservation", "DbError"}
                /\ (res[p].kind = "NotFound") <=> (e.type = "RowNotFound")
                /\ (res[p].kind = "ConflictReservation") <=> IsExclusion(e)
                /\ IsExclusion(e) =>
                       res[p].info.tag \in {"Parsed", "Unparsed"}

\* The translation has panicked on a violation of the exclusion
\* constraint that carries no detail.
C16_Witness ==
    \E p \in Procs :
        /\ Done(p, "error_from") /\ res[p].kind = "Panic"
        /\ IsExclusion(req[p].err) /\ ~req[p].err.detail.some


\* The pieces of a diagnostic that have the shape of a clause.
ClausesOf(str) == SelectSeq(str, LAMBDA c : c.shape = "clause")

\* A clause (resource_id, timespan)=(rid, ["start","end")) with two
\* timestamps.
WellFormedClause(c) ==
    /\ c.k1 = "resource_id" /\ c.k2 = "timespan"
    /\ Len(c.v2) = 2 /\ c.v2[1].ok /\ c.v2[2].ok

\* The window a well-formed clause denotes: its rid, and the instants of
\* its two timestamps, in UTC.
WindowOf(c) ==
    [rid |-> c.v1, start |-> c.v2[1].wall - c.v2[1].off,
     end |-> c.v2[2].wall - c.v2[2].off]

TwoWellFormed(str) ==
    /\ Len(ClausesOf(str)) = 2
    /\ WellFormedClause(ClausesOf(str)[1]) /\ WellFormedClause(ClausesOf(str)[2])

RowWindow(row) ==
    [rid |-> row.resource_id, start |-> row.timespan.start,
     end |-> row.timespan.end]

Elements(sq) == {sq[i] : i \in 1 .. Len(sq)}

\* The window [start, end) of a query.
WindowOfQuery(q) == [start |-> q.start \div TicksPerSecond,
                     end |-> q.end \div TicksPerSecond]

\* The window of the query covers the stored reservation.
Covers(q, row) ==
    /\ WindowOfQuery(q).start <= row.timespan.start
    /\ row.timespan.end <= WindowOfQuery(q).end

\* The first page of 10.
FirstPage(q) == q.page = 1 /\ q.pagesize = 10

\* C19: query with page 1 and page size 10 for a resource returns the
\* empty sequence when its window ends before every stored reservation of
\* the resource starts; and it returns exactly the stored reservations of
\* the resource that its window covers and that match its user filter
\* (empty, or their user) and its status.
C19_QueryWindow ==
    [][\A p \in Procs :
         (Executes(p, "query") /\ FirstPage(req[p].query)
              /\ req[p].query.resource_id # "") =>
            LET q == req[p].query
                mine == {row \in store : row.resource_id = q.resource_id}
            IN  /\ res'[p].kind = "Ok"
                /\ (\A row \in mine :
                        WindowOfQuery(q).end <= row.timespan.start)
                       => res'[p].rsvps = <<>>
                /\ q.status \in {"Pending", "Confirmed", "Blocked"} =>
                       /\ Elements(res'[p].rsvps) =
                             {from_row(row) :
                                row \in {x \in mine :
                                           /\ Covers(q, x)
                                           /\ q.user_id \in {"", x.user_id}
                                           /\ StatusName(x.status) = q.status}}
                       /\ Len(res'[p].rsvps) = Cardinality(Elements(res'[p].rsvps))
                /\ store' = store]_vars

\* A query for r1 and [0,1) has returned exactly the reservation stored
\* for that window, and not the one stored for [1,2).
C19_Witness ==
    \E p \in Procs :
        /\ Done(p, "query") /\ Len(res[p].rsvps) = 1
        /\ req[p].query.resource_id = "r1" /\ req[p].query.user_id = ""
        /\ req[p].query.start = 0 /\ req[p].query.end = TicksPerSecond
        /\ res[p].rsvps[1].start_time = 0
        /\ Cardinality({row \in store : row.resource_id = "r1"}) = 2

\* C20: in query, a filter that is empty or absent matches all
\* reservations on its dimension: the first page of 10 holds the stored
\* reservations that the window covers, of the user if user_id is not
\* empty, of the resource if resource_id is not empty, and of the status
\* if one is set.
C20_EmptyFiltersMatchAll ==
    [][\A p \in Procs :
         (Executes(p, "query") /\ FirstPage(req[p].query)
              /\ req[p].query.status # "Other") =>
            LET q == req[p].query
            IN  Elements(res'[p].rsvps) =
                  {from_row(row) :
                     row \in {x \in store :
                                /\ Covers(q, x)
                                /\ q.user_id \in {"", x.user_id}
                                /\ q.resource_id \in {"", x.resource_id}
                                /\ q.status \in {"Unknown", StatusName(x.status)}}}]_vars

\* A query with no status set has returned nothing, with a Pending
\* reservation stored that its window covers and its other filters match.
C20_Witness ==
    \E p \in Procs :
        /\ Done(p, "query") /\ res[p].kind = "Ok" /\ res[p].rsvps = <<>>
        /\ FirstPage(req[p].query) /\ req[p].query.status = "Unknown"
        /\ \E row \in store :
              /\ row.status = "pending" /\ Covers(req[p].query, row)
              /\ req[p].query.user_id \in {"", row.user_id}
              /\ req[p].query.resource_id \in {"", row.resource_id}


\* The stored window of row, in ticks, shares an instant with the window
\* [start_time, end_time) of reservation r as it was submitted.
OverlapsSubmitted(row, r) ==
    WindowsOverlap(to_timestamp(row.timespan.start),
                   to_timestamp(row.timespan.end),
                   r.start_time, r.end_time)

\* The submitted window of r starts where the stored window of row ends,
\* or ends where it starts.
Touches(row, r) ==
    \/ r.start_time = to_timestamp(row.timespan.end)
    \/ r.end_time = to_timestamp(row.timespan.start)

\* C21: a valid reserve fails only with ConflictReservation, and only if a
\* stored reservation of the same resource_id has a window [start, end)
\* that overlaps the new one.  When none does, the stored windows only
\* touching the new one or belonging to another resource_id, the reserve
\* succeeds and stores the reservation beside the others.
C21_ConflictOnlyOnOverlap ==
    [][\A p \in Procs :
         Executes(p, "reserve") =>
            LET r == req[p].rsvp
                hit == {row \in store :
                           /\ row.resource_id = r.resource_id
                           /\ OverlapsSubmitted(row, r)}
            IN  /\ res'[p].kind \in {"Ok", "ConflictReservation"}
                /\ res'[p].kind = "ConflictReservation" => hit # {}
                /\ hit = {} =>
                      /\ res'[p].kind = "Ok"
                      /\ store' = store \cup {InsertedRow(r, res'[p].rsvp.id)}
                      /\ store' # store]_vars

\* reserve has succeeded for a window with a bound that is no whole second,
\* beside a stored reservation of its resource that it touches.
C21_Witness ==
    \E p \in Procs :
        /\ Done(p, "reserve") /\ res[p].kind = "Ok"
        /\ req[p].rsvp.start_time % TicksPerSecond # 0
        /\ \E row \in store :
              /\ row.id # res[p].rsvp.id
              /\ row.resource_id = req[p].rsvp.resource_id
              /\ Touches(row, req[p].rsvp)
              /\ ~OverlapsSubmitted(row, req[p].rsvp)

\* reserve has succeeded for a window that overlaps the stored window of
\* another resource.
C21_OtherResourceReached ==
    \E p \in Procs :
        /\ Done(p, "reserve") /\ res[p].kind = "Ok"
        /\ \E row \in store :
              /\ row.resource_id # req[p].rsvp.resource_id
              /\ OverlapsSubmitted(row, req[p].rsvp)


\* The stored reservations that stand in the way of reservation r: those
\* of its resource whose window overlaps its window.
Blocking(rows, r) ==
    {row \in rows :
        row.resource_id = r.resource_id /\ OverlapsSubmitted(row, r)}

\* C22: delete(id) succeeds and removes the reservation stored under id,
\* Pending or Confirmed, so that it no longer stands in the way of any
\* reservation; and a valid reserve succeeds, and stores its reservation,
\* whenever no stored reservation of its resource overlaps its window.  So
\* a reserve that overlapped only the deleted reservation succeeds after
\* the delete.
C22_DeleteReleasesWindow ==
    [][\A p \in Procs :
         /\ Executes(p, "delete") =>
               LET gone == {row \in store : row.id = req[p].id}
               IN  /\ res'[p].kind = "Ok"
                   /\ store' = store \ gone
                   /\ \A r \in RaceInputs :
                         Blocking(store, r) \subseteq gone
                            => Blocking(store', r) = {}
         /\ (Executes(p, "reserve") /\ Blocking(store, req[p].rsvp) = {}) =>
               /\ res'[p].kind = "Ok"
               /\ \E row \in store' \ store :
                     /\ row.id = res'[p].rsvp.id
                     /\ row.resource_id = req[p].rsvp.resource_id
                     /\ row.timespan = get_timespan(req[p].rsvp)]_vars

\* The first reservation was confirmed and is stored no more, and a reserve
\* of its resource for a window that overlaps its window has succeeded.
C22_Witness ==
    /\ Done("p2", "change_status") /\ Confirmed("p2") /\ req["p2"].id = 1
    /\ ~\E row \in store : row.id = 1
    /\ Done("p1", "reserve") /\ res["p1"].kind = "Ok"
    /\ res["p1"].rsvp.resource_id = res["p2"].rsvp.resource_id
    /\ WindowsOverlap(res["p1"].rsvp.start_time, res["p1"].rsvp.end_time,
                      res["p2"].rsvp.start_time, res["p2"].rsvp.end_time)
    /\ \E row \in store : row.id = res["p1"].rsvp.id


\* The status stored under id, if a reservation is stored under it.
StatusAt(rows, id) == {row.status : row \in {x \in rows : x.id = id}}

\* C23: a stored reservation whose status is confirmed stays stored with
\* status confirmed in every step of reserve, change_status and
\* update_note, and leaves the store only by delete of its id; the only
\* change of the status of a stored id is from pending to confirmed, by
\* change_status of that id; and an id that is not stored is given to a
\* reservation only by reserve, and is an id no reservation had before.
\* So each id has at most one status transition in its lifetime.
C23_ConfirmedTerminal ==
    [][/\ \A row \in store :
            row.status = "confirmed" =>
               \/ StatusAt(store', row.id) = {"confirmed"}
               \/ /\ StatusAt(store', row.id) = {}
                  /\ \E p \in Procs : Executes(p, "delete") /\ req[p].id = row.id
       /\ \A row \in store :
            (StatusAt(store', row.id) \notin {{}, {row.status}}) =>
               /\ row.status = "pending"
               /\ StatusAt(store', row.id) = {"confirmed"}
               /\ \E p \in Procs :
                     Executes(p, "change_status") /\ req[p].id = row.id
       /\ \A id \in Uuids :
            (StatusAt(store, id) = {} /\ StatusAt(store', id) # {}) =>
               /\ \E p \in Procs : Executes(p, "reserve")
               /\ id = nextId /\ nextId' = nextId + 1
       /\ \A row \in store' : row.id < nextId']_vars

\* A confirmed reservation has had its note set by one caller and a
\* further change_status refused to another, and is stored confirmed.
C23_Witness ==
    \E p \in Procs : \E q \in Procs :
        /\ Done(p, "change_status") /\ res[p].kind = "NotFound"
        /\ Done(q, "update_note") /\ res[q].kind = "Ok"
        /\ req[q].id = req[p].id
        /\ res[q].rsvp.status = "Confirmed"
        /\ \E row \in store :
              /\ row.id = req[p].id /\ row.status = "confirmed"
              /\ row.note = "n1"

=============================================================================
